---- MODULE Spec2Model ----
(***************************************************************************)
(* Bikewatching (map.js): station-traffic aggregation, time-windowed       *)
(* re-aggregation and the reactive marker pipeline, as a state machine.    *)
(* Radii are in thousandths of a pixel, flow buckets in tenths.            *)
(***************************************************************************)
EXTENDS Integers, Sequences, FiniteSets, TLC

VARIABLES pc, stations, trips, timeFilter, radiusScale, circles, view,
          sliderValue, selectedTime, anyTimeDisplay,
          filteredTrips, loadTraffic, lastEvent

vars == <<pc, stations, trips, timeFilter, radiusScale, circles, view,
          sliderValue, selectedTime, anyTimeDisplay,
          filteredTrips, loadTraffic, lastEvent>>

\* ---------------------------------------------------------------- bounds

MaxStations == 2
MaxTrips == 2

\* ------------------------------------------------------ program constants

NoFilter == -1
WindowMinutes == 60
RadiusMinIdle == 0
RadiusMaxIdle == 25
RadiusMinFiltered == 3
RadiusMaxFiltered == 50
OffCanvas == -9999

\* a null or absent field of a JSON record
Null == "<null>"

\* ------------------------------------------------------------ input data

\* station records as the stations JSON can hold them: identified by
\* short_name, by station_id only, or by neither (and then without coordinates)
RawStationKinds ==
  { [short_name |-> "A",  station_id |-> "11", lat |-> "2",  lon |-> "1",  name |-> "Alpha"],
    [short_name |-> Null, station_id |-> "B",  lat |-> "1",  lon |-> "3",  name |-> "Beta"],
    [short_name |-> Null, station_id |-> Null, lat |-> Null, lon |-> Null, name |-> "Gamma"] }

Clock(h, mi) == [h |-> h, mi |-> mi]

Trip(from, to, s, e) ==
  [start_station_id |-> from, end_station_id |-> to, started_at |-> s, ended_at |-> e]

\* rows of the trips CSV after the row conversion
TripKinds ==
  { Trip("A", "B",  Clock(8, 10),  Clock(8, 25)),
    Trip("B", "A",  Clock(1, 30),  Clock(9, 20)),
    Trip("A", "S1", Clock(1, 31),  Clock(7, 19)),
    Trip("B", "B",  Clock(23, 30), Clock(23, 30)),
    Trip("X", "A",  Clock(7, 20),  Clock(9, 0)) }

\* values the slider control can emit: the sentinel and minutes of the day
SliderValues == {NoFilter, 30, 500, 1439}

InitialView == [center |-> 0, zoom |-> 12, size |-> 1]

\* viewport transforms the map is taken through
Views ==
  { InitialView,
    [InitialView EXCEPT !.center = 1],
    [InitialView EXCEPT !.zoom = 13],
    [InitialView EXCEPT !.size = 2] }

SeqsUpTo(S, n) == UNION {[1..k -> S] : k \in 0..n}

\* --------------------------------------------------------------- helpers

\* a ?? b
Coalesce(a, b) == IF a = Null THEN b ELSE a

\* unary plus on a coordinate string
ToNumber(str) ==
  CASE str = "1" -> 1 [] str = "2" -> 2 [] str = "3" -> 3

\* +str is NaN: the string is no number
IsNaN(str) == str \notin {"1", "2", "3"}

\* `S${idx}`
IndexId(idx) == <<"S0", "S1", "S2", "S3", "S4">>[idx + 1]

getLat(station) == station.lat

getLon(station) == station.lon

getStationId(station, idx) ==
  Coalesce(station.short_name, Coalesce(station.station_id, IndexId(idx)))

\* map.project under the current viewport transform
project(vw, lon, lat) ==
  [x |-> (lon - vw.center) * (vw.zoom - 11) + vw.size,
   y |-> lat * (vw.zoom - 11) + vw.size]

getCoords(vw, station) ==
  LET lat == getLat(station)
      lon == getLon(station)
  IN IF lat = Null \/ lon = Null
       THEN [cx |-> OffCanvas, cy |-> OffCanvas]
       ELSE LET p == project(vw, ToNumber(lon), ToNumber(lat))
            IN [cx |-> p.x, cy |-> p.y]

\* getCoords(station) throws: the coordinate is there, so the null test lets
\* it through, but a NaN reaches map.project, whose LngLat refuses it
\* ("Invalid LngLat object")
ProjectThrows(station) ==
  /\ getLat(station) # Null
  /\ getLon(station) # Null
  /\ IsNaN(getLat(station)) \/ IsNaN(getLon(station))

\* "h:mm AM/PM" as <<hour, minute, meridiem>>
formatTime(minutes) ==
  LET h == (minutes \div 60) % 24
      mi == minutes % 60
  IN <<IF h % 12 = 0 THEN 12 ELSE h % 12, mi, IF h < 12 THEN "AM" ELSE "PM">>

minutesSinceMidnight(date) == date.h * 60 + date.mi

Abs(x) == IF x < 0 THEN -x ELSE x

\* a rollup whose loop starts one trip late
rollupSkipFirst(tripsArray, key) ==
  LET counted == DOMAIN tripsArray \ {1}
  IN [k \in {tripsArray[i][key] : i \in counted} |->
        Cardinality({i \in counted : tripsArray[i][key] = k})]

\* d3.rollup(tripsArray, v => v.length, d => d[key]): key -> count
rollup(tripsArray, key) ==
  [k \in {tripsArray[i][key] : i \in DOMAIN tripsArray} |->
     Cardinality({i \in DOMAIN tripsArray : tripsArray[i][key] = k})]

\* table.get(id) ?? 0
GetOrZero(table, id) == IF id \in DOMAIN table THEN table[id] ELSE 0

\* the record s with the fields of the record written written onto it
Assign(s, written) == written @@ s

\* StationTraffic with totalTraffic taken from the arrivals alone
StationTrafficArrivalsOnly(s, idx, arrivals, departures) ==
  LET id == getStationId(s, idx)
      arr == GetOrZero(arrivals, id)
      dep == GetOrZero(departures, id)
  IN Assign(s, ("_id" :> id) @@
               [arrivals |-> arr, departures |-> dep, totalTraffic |-> arr])

\* StationTraffic adding the counts of this pass onto the counters of the last
StationTrafficIncremental(s, idx, arrivals, departures) ==
  LET id == getStationId(s, idx)
      had == "totalTraffic" \in DOMAIN s
      arr == GetOrZero(arrivals, id) + (IF had THEN s.arrivals ELSE 0)
      dep == GetOrZero(departures, id) + (IF had THEN s.departures ELSE 0)
  IN Assign(s, ("_id" :> id) @@
               [arrivals |-> arr, departures |-> dep, totalTraffic |-> arr + dep])

\* the per-station body of computeStationTraffic's map callback
StationTraffic(s, idx, arrivals, departures) ==
  LET id == IF "_id" \in DOMAIN s THEN Coalesce(s["_id"], getStationId(s, idx))
                                  ELSE getStationId(s, idx)
      arr == GetOrZero(arrivals, id)
      dep == GetOrZero(departures, id)
  IN Assign(s, ("_id" :> id) @@
               [arrivals |-> arr, departures |-> dep, totalTraffic |-> arr + dep])

\* computeStationTraffic with the two tables keyed the other way round
computeStationTrafficSwapped(stationsArray, tripsArray) ==
  LET departures == rollup(tripsArray, "end_station_id")
      arrivals == rollup(tripsArray, "start_station_id")
  IN [i \in DOMAIN stationsArray |->
        Assign(stationsArray[i],
               [arrivals |-> GetOrZero(arrivals, stationsArray[i]["_id"]),
                departures |-> GetOrZero(departures, stationsArray[i]["_id"]),
                totalTraffic |-> GetOrZero(arrivals, stationsArray[i]["_id"])
                                   + GetOrZero(departures, stationsArray[i]["_id"])])]

\* computeStationTraffic that returns only the stations some trip touches
computeStationTrafficActiveOnly(stationsArray, tripsArray) ==
  LET departures == rollup(tripsArray, "start_station_id")
      arrivals == rollup(tripsArray, "end_station_id")
      counted == [i \in DOMAIN stationsArray |->
                    StationTraffic(stationsArray[i], i - 1, arrivals, departures)]
      Active(s) == s.totalTraffic > 0
  IN SelectSeq(counted, Active)

computeStationTraffic(stationsArray, tripsArray) ==
  LET departures == rollup(tripsArray, "start_station_id")
      arrivals == rollup(tripsArray, "end_station_id")
  IN [i \in DOMAIN stationsArray |->
        StationTraffic(stationsArray[i], i - 1, arrivals, departures)]

\* InWindow with the window's ends left out
InWindowStrict(trip, minute) ==
  LET started == minutesSinceMidnight(trip.started_at)
      ended == minutesSinceMidnight(trip.ended_at)
  IN Abs(started - minute) < WindowMinutes \/ Abs(ended - minute) < WindowMinutes

InWindow(trip, minute) ==
  LET started == minutesSinceMidnight(trip.started_at)
      ended == minutesSinceMidnight(trip.ended_at)
  IN Abs(started - minute) <= WindowMinutes \/ Abs(ended - minute) <= WindowMinutes

\* filterTripsByTime without the pass-through of the sentinel
filterTripsByTimeAlways(tripsArray, minute) ==
  LET Keep(trip) == InWindow(trip, minute)
  IN SelectSeq(tripsArray, Keep)

filterTripsByTime(tripsArray, minute) ==
  IF minute = NoFilter
    THEN tripsArray
    ELSE LET Keep(trip) == InWindow(trip, minute)
         IN SelectSeq(tripsArray, Keep)

\* ------------------------------------------------------- visual encoding

RECURSIVE SqrtSearch(_, _, _)
SqrtSearch(n, lo, hi) ==
  IF lo >= hi
    THEN lo
    ELSE LET mid == (lo + hi + 1) \div 2
         IN IF mid * mid <= n THEN SqrtSearch(n, mid, hi)
                              ELSE SqrtSearch(n, lo, mid - 1)

\* floor of the square root
Isqrt(n) == SqrtSearch(n, 0, 4000)

\* ScaleSqrt with the range taken to start at 0
ScaleSqrtFromZero(rs, x) ==
  rs.range[2] * Isqrt((x * 1000000) \div rs.domain[2])

\* radiusScale(x) for a d3.scaleSqrt with domain [0, d] and range [lo, hi],
\* in thousandths of a pixel
ScaleSqrt(rs, x) ==
  rs.range[1] * 1000
    + (rs.range[2] - rs.range[1]) * Isqrt((x * 1000000) \div rs.domain[2])

\* RangeFor that never widens the range
RangeForIdle(currentTimeFilter) == <<RadiusMinIdle, RadiusMaxIdle>>

\* the range updateScatterPlot selects for a filter value
RangeFor(currentTimeFilter) ==
  IF currentTimeFilter = NoFilter
    THEN <<RadiusMinIdle, RadiusMaxIdle>>
    ELSE <<RadiusMinFiltered, RadiusMaxFiltered>>

\* FlowRatio without the guard against totalTraffic 0
FlowRatioUnguarded(d) == <<d.departures, d.totalTraffic>>

\* d.totalTraffic ? d.departures / d.totalTraffic : 0.5, as <<numerator, denominator>>
FlowRatio(d) ==
  IF d.totalTraffic # 0 THEN <<d.departures, d.totalTraffic>> ELSE <<1, 2>>

\* d3.scaleQuantize().domain([0, 1]).range([0, 0.5, 1]): thresholds 1/3 and 2/3,
\* a value on a threshold falls in the upper bucket; result in tenths
stationFlow(ratio) ==
  IF 3 * ratio[1] < ratio[2] THEN 0
  ELSE IF 3 * ratio[1] < 2 * ratio[2] THEN 5
  ELSE 10

TitleText(d) == <<d.name, d.totalTraffic, d.departures, d.arrivals>>

\* the first station's totalTraffic taken for the maximum
MaxTrafficOfFirst(sts) ==
  LET m == IF sts = <<>> THEN 0 ELSE sts[1].totalTraffic
  IN IF m = 0 THEN 1 ELSE m

\* d3.max(stations, d => d.totalTraffic) || 1
MaxTraffic(sts) ==
  LET totals == {sts[i].totalTraffic : i \in DOMAIN sts}
      m == IF totals = {} THEN 0
           ELSE CHOOSE t \in totals : \A u \in totals : u <= t
  IN IF m = 0 THEN 1 ELSE m

\* the circle element node bound to datum i, every attribute written from the datum
Circle(node, i, d, rs, vw) ==
  LET at == getCoords(vw, d)
  IN [node |-> node,
      datum |-> i,
      cx |-> at.cx,
      cy |-> at.cy,
      r |-> ScaleSqrt(rs, d.totalTraffic),
      ratio |-> stationFlow(FlowRatio(d)),
      title |-> TitleText(d)]

\* the largest element number of a selection, 0 for the empty one
TopNode(cs) ==
  IF cs = <<>> THEN 0
  ELSE LET nodes == {cs[c].node : c \in DOMAIN cs}
       IN CHOOSE n \in nodes : \A m \in nodes : m <= n

\* a join that appends a circle for every datum and keeps the circles it found
JoinCirclesAppending(cs, data, rs, vw) ==
  cs \o [i \in DOMAIN data |-> Circle(TopNode(cs) + i, i, data[i], rs, vw)]

\* selectAll("circle").data(data, d => d._id).join("circle") on the selection cs:
\* d3's keyed bind gives a datum the first circle whose bound station has its
\* key, unless an earlier datum took it; the other data enter as new circles,
\* the circles left over exit and are removed; the result is in data order
JoinCircles(cs, data, rs, vw) ==
  LET NodeOf(i) ==
        LET k == data[i]["_id"]
            found == {c \in DOMAIN cs : data[cs[c].datum]["_id"] = k}
        IN IF found = {} \/ \E j \in 1..(i - 1) : data[j]["_id"] = k
             THEN 0
             ELSE cs[CHOOSE c \in found : \A e \in found : c <= e].node
      Entered(i) == Cardinality({j \in 1..i : NodeOf(j) = 0})
  IN [i \in DOMAIN data |->
        LET node == NodeOf(i)
        IN Circle(IF node # 0 THEN node ELSE TopNode(cs) + Entered(i),
                  i, data[i], rs, vw)]

\* updatePositions that also resets every radius to the idle floor
RepositionedResized(cs, sts, vw) ==
  [i \in DOMAIN cs |->
     LET at == getCoords(vw, sts[cs[i].datum])
     IN [cs[i] EXCEPT !.cx = at.cx, !.cy = at.cy, !.r = RadiusMinIdle]]

\* updatePositions that re-projects cx and leaves cy as it was
RepositionedAcross(cs, sts, vw) ==
  [i \in DOMAIN cs |->
     [cs[i] EXCEPT !.cx = getCoords(vw, sts[cs[i].datum]).cx]]

\* the selection after updatePositions: cx and cy re-projected, nothing else
Repositioned(cs, sts, vw) ==
  [i \in DOMAIN cs |->
     LET at == getCoords(vw, sts[cs[i].datum])
     IN [cs[i] EXCEPT !.cx = at.cx, !.cy = at.cy]]

\* the station files loaded: every station has its own identity
StationFiles ==
  {raw \in SeqsUpTo(RawStationKinds, MaxStations) :
     \A i, j \in DOMAIN raw :
        i # j => getStationId(raw[i], i - 1) # getStationId(raw[j], j - 1)}

\* station normalisation at load
Normalise(rawStations) ==
  [i \in DOMAIN rawStations |->
     Assign(rawStations[i], "_id" :> getStationId(rawStations[i], i - 1))]

Counters(sts) ==
  [i \in DOMAIN sts |-> <<sts[i].arrivals, sts[i].departures, sts[i].totalTraffic>>]

\* ---------------------------------------------------------------- state

Init ==
  /\ pc = "start"
  /\ stations = <<>>
  /\ trips = <<>>
  /\ timeFilter = NoFilter
  /\ radiusScale = [domain |-> <<0, 1>>, range |-> <<RadiusMinIdle, RadiusMaxIdle>>]
  /\ circles = <<>>
  /\ view = InitialView
  /\ sliderValue = NoFilter
  /\ selectedTime = <<>>
  /\ anyTimeDisplay = ""
  /\ filteredTrips = <<>>
  /\ loadTraffic = <<>>
  /\ lastEvent = "none"

\* updateScatterPlot that re-derives the radius domain from the filtered counters
updateScatterPlotRescaled(cs, sts, rs, currentTimeFilter) ==
  LET filtered == filterTripsByTime(trips', currentTimeFilter)
      filteredStations == computeStationTraffic(sts, filtered)
      scale == [domain |-> <<0, MaxTraffic(filteredStations)>>,
                range |-> RangeFor(currentTimeFilter)]
  IN /\ filteredTrips' = filtered
     /\ stations' = filteredStations
     /\ radiusScale' = scale
     /\ circles' = JoinCircles(cs, filteredStations, scale, view')

\* updateScatterPlot(currentTimeFilter) on the circles cs, stations sts and scale rs
updateScatterPlot(cs, sts, rs, currentTimeFilter) ==
  LET filtered == filterTripsByTime(trips', currentTimeFilter)
      filteredStations == computeStationTraffic(sts, filtered)
      scale == [rs EXCEPT !.range = RangeFor(currentTimeFilter)]
  IN /\ filteredTrips' = filtered
     /\ stations' = filteredStations
     /\ radiusScale' = scale
     \* the join binds the station objects just written, under the range just set
     /\ circles' = JoinCircles(cs, stations', radiusScale', view')

\* updateTimeDisplay() that formats the label whatever the filter is
updateTimeDisplayAlwaysClock(cs, sts, rs) ==
  /\ timeFilter' = sliderValue'
  /\ selectedTime' = formatTime(timeFilter')
  /\ anyTimeDisplay' = "none"
  /\ updateScatterPlot(cs, sts, rs, timeFilter')

\* updateTimeDisplay() on the circles cs, stations sts and scale rs
updateTimeDisplay(cs, sts, rs) ==
  /\ timeFilter' = sliderValue'
  /\ IF timeFilter' = NoFilter
       THEN selectedTime' = <<>> /\ anyTimeDisplay' = "block"
       ELSE selectedTime' = formatTime(timeFilter') /\ anyTimeDisplay' = "none"
  /\ updateScatterPlot(cs, sts, rs, timeFilter')

\* map "load" up to the first await
MapLoad ==
  /\ pc = "start"
  /\ pc' = "awaitStations"
  /\ UNCHANGED <<stations, trips, timeFilter, radiusScale, circles, view,
                 sliderValue, selectedTime, anyTimeDisplay,
                 filteredTrips, loadTraffic, lastEvent>>

\* d3.json resolves: the station list is normalised, the CSV load starts
StationsLoaded(rawStations) ==
  /\ pc = "awaitStations"
  /\ pc' = "awaitTrips"
  /\ stations' = Normalise(rawStations)
  /\ UNCHANGED <<trips, timeFilter, radiusScale, circles, view,
                 sliderValue, selectedTime, anyTimeDisplay,
                 filteredTrips, loadTraffic, lastEvent>>

\* d3.csv resolves: first aggregation, radius domain, initial circles,
\* handler registration, initial updateTimeDisplay()
TripsLoaded(loaded) ==
  /\ pc = "awaitTrips"
  /\ \A i \in DOMAIN stations : ~ProjectThrows(stations[i])
  /\ pc' = "ready"
  /\ trips' = loaded
  /\ LET aggregated == computeStationTraffic(stations, loaded)
         scale == [domain |-> <<0, MaxTraffic(aggregated)>>,
                   range |-> <<RadiusMinIdle, RadiusMaxIdle>>]
         entered == JoinCircles(<<>>, aggregated, scale, view)
     IN /\ loadTraffic' = Counters(aggregated)
        /\ UNCHANGED <<view, sliderValue>>
        /\ updateTimeDisplay(entered, aggregated, scale)
  /\ lastEvent' = "load"

\* d3.csv resolves and the initial render throws in .attr("cx", ...) at the
\* first station whose projection throws: the stations are aggregated, the
\* radius domain is set and every circle is appended with its r; the circles
\* before that station have cx, none has cy, ratio or title; the rejected
\* load handler registers no listener and never calls updateTimeDisplay()
TripsLoadedThrows(loaded) ==
  /\ pc = "awaitTrips"
  /\ \E i \in DOMAIN stations : ProjectThrows(stations[i])
  /\ pc' = "failed"
  /\ trips' = loaded
  /\ LET aggregated == computeStationTraffic(stations, loaded)
         scale == [domain |-> <<0, MaxTraffic(aggregated)>>,
                   range |-> <<RadiusMinIdle, RadiusMaxIdle>>]
         thrower == CHOOSE i \in DOMAIN stations :
                      /\ ProjectThrows(stations[i])
                      /\ \A j \in 1..(i - 1) : ~ProjectThrows(stations[j])
     IN /\ stations' = aggregated
        /\ radiusScale' = scale
        /\ loadTraffic' = Counters(aggregated)
        /\ circles' =
             [i \in DOMAIN aggregated |->
                LET appended == [node |-> i, datum |-> i,
                                 r |-> ScaleSqrt(scale, aggregated[i].totalTraffic)]
                IN IF i < thrower
                     THEN appended @@ ("cx" :> getCoords(view, aggregated[i]).cx)
                     ELSE appended]
  /\ lastEvent' = "load"
  /\ UNCHANGED <<timeFilter, view, sliderValue, selectedTime, anyTimeDisplay,
                 filteredTrips>>

\* a slider handler that stores the windowed selection back into trips
SliderInputNarrowing(v) ==
  /\ pc = "ready"
  /\ sliderValue' = v
  /\ trips' = filterTripsByTime(trips, v)
  /\ UNCHANGED <<pc, view, loadTraffic>>
  /\ updateTimeDisplay(circles, stations, radiusScale)
  /\ lastEvent' = "slider"

\* an "input" event of the slider, handled by updateTimeDisplay
SliderInput(v) ==
  /\ pc = "ready"
  /\ sliderValue' = v
  /\ UNCHANGED <<pc, trips, view, loadTraffic>>
  /\ updateTimeDisplay(circles, stations, radiusScale)
  /\ lastEvent' = "slider"

\* a slider listener registered before the load handler: it runs
\* updateTimeDisplay while the data load is still suspended
SliderHeardEarly(v) ==
  /\ pc # "ready"
  /\ sliderValue' = v
  /\ UNCHANGED <<pc, trips, view, loadTraffic>>
  /\ updateTimeDisplay(circles, stations, radiusScale)
  /\ lastEvent' = "slider"

\* the slider is moved while no listener is registered yet
SliderUnheard(v) ==
  /\ pc # "ready"
  /\ sliderValue' = v
  /\ UNCHANGED <<pc, stations, trips, timeFilter, radiusScale, circles, view,
                 selectedTime, anyTimeDisplay, filteredTrips, loadTraffic, lastEvent>>

\* updatePositions on a viewport event, once registered
Viewport(newView) ==
  /\ view' = newView
  /\ IF pc = "ready"
       THEN /\ circles' = Repositioned(circles, stations, newView)
            /\ lastEvent' = "viewport"
       ELSE UNCHANGED <<circles, lastEvent>>
  /\ UNCHANGED <<pc, stations, trips, timeFilter, radiusScale, sliderValue,
                 selectedTime, anyTimeDisplay, filteredTrips, loadTraffic>>

Move ==
  \E v \in Views : v.center # view.center /\ v.zoom = view.zoom /\ v.size = view.size
                   /\ Viewport(v)

Zoom ==
  \E v \in Views : v.zoom # view.zoom /\ v.center = view.center /\ v.size = view.size
                   /\ Viewport(v)

Resize ==
  \E v \in Views : v.size # view.size /\ v.center = view.center /\ v.zoom = view.zoom
                   /\ Viewport(v)

Next ==
  \/ MapLoad
  \/ pc = "awaitStations"
       /\ \E rawStations \in StationFiles : StationsLoaded(rawStations)
  \/ pc = "awaitTrips"
       /\ \E loaded \in SeqsUpTo(TripKinds, MaxTrips) : TripsLoaded(loaded)
  \/ pc = "ready" /\ \E v \in SliderValues : SliderInput(v)
  \/ pc # "ready" /\ \E v \in SliderValues : SliderUnheard(v)
  \/ Move
  \/ Zoom
  \/ Resize

Spec == Init /\ [][Next]_vars

\* ------------------------------------------- computeStationTraffic alone

\* station arrays as computeStationTraffic accepts them: straight from the
\* file (no _id yet) or normalised
AggStations == StationFiles \cup {Normalise(raw) : raw \in StationFiles}

\* the orderings of a trip array
Reordered(ts) ==
  {[k \in DOMAIN ts |-> ts[p[k]]] : p \in Permutations(DOMAIN ts)}

\* stations holds the station objects, filteredTrips the trip array they are
\* aggregated over and trips another ordering of the same trips
AggInit ==
  /\ pc = "aggregate"
  /\ stations \in AggStations
  /\ trips \in SeqsUpTo(TripKinds, MaxTrips)
  /\ filteredTrips \in Reordered(trips)
  /\ timeFilter = NoFilter
  /\ radiusScale = [domain |-> <<0, 1>>, range |-> <<RadiusMinIdle, RadiusMaxIdle>>]
  /\ circles = <<>>
  /\ view = InitialView
  /\ sliderValue = NoFilter
  /\ selectedTime = <<>>
  /\ anyTimeDisplay = ""
  /\ loadTraffic = <<>>
  /\ lastEvent = "none"

\* computeStationTraffic(stations, filteredTrips); loadTraffic records the
\* counters the call gives over the other ordering
AggFirst ==
  /\ pc = "aggregate"
  /\ pc' = "aggregated"
  /\ stations' = computeStationTraffic(stations, filteredTrips)
  /\ loadTraffic' = Counters(computeStationTraffic(stations, trips))
  /\ UNCHANGED <<trips, timeFilter, radiusScale, circles, view, sliderValue,
                 selectedTime, anyTimeDisplay, filteredTrips, lastEvent>>

\* computeStationTraffic again on the station objects the first call wrote
AggSecond ==
  /\ pc = "aggregated"
  /\ pc' = "aggregatedTwice"
  /\ stations' = computeStationTraffic(stations, filteredTrips)
  /\ UNCHANGED <<trips, timeFilter, radiusScale, circles, view, sliderValue,
                 selectedTime, anyTimeDisplay, filteredTrips, loadTraffic, lastEvent>>

AggNext == AggFirst \/ AggSecond

AggSpec == AggInit /\ [][AggNext]_vars

\* --------------------------------- station files with unparseable coordinates

\* a station whose latitude is text that is no number
UnparsedStation ==
  [short_name |-> "C", station_id |-> "13", lat |-> "n/a", lon |-> "3", name |-> "Delta"]

\* station files that may hold it, every station with its own identity
CoordStationFiles ==
  {raw \in SeqsUpTo(RawStationKinds \cup {UnparsedStation}, MaxStations) :
     \A i, j \in DOMAIN raw :
        i # j => getStationId(raw[i], i - 1) # getStationId(raw[j], j - 1)}

CoordNext ==
  \/ MapLoad
  \/ pc = "awaitStations"
       /\ \E rawStations \in CoordStationFiles : StationsLoaded(rawStations)
  \/ pc = "awaitTrips"
       /\ \E loaded \in SeqsUpTo(TripKinds, MaxTrips) : TripsLoaded(loaded)
  \/ pc = "awaitTrips"
       /\ \E loaded \in SeqsUpTo(TripKinds, MaxTrips) : TripsLoadedThrows(loaded)
  \/ pc = "ready" /\ \E v \in SliderValues : SliderInput(v)
  \/ pc # "ready" /\ \E v \in SliderValues : SliderUnheard(v)
  \/ Move
  \/ Zoom
  \/ Resize

CoordSpec == Init /\ [][CoordNext]_vars

\* ======================================================== properties

Ready == pc = "ready"

Id(i) == stations[i]["_id"]

\* minutes since midnight of a clock value, written out
MinuteOf(c) == 60 * c.h + c.mi

\* the trip lies in the two-hour window around minute m
Near(trip, m) ==
  \/ MinuteOf(trip.started_at) - m \in -60..60
  \/ MinuteOf(trip.ended_at) - m \in -60..60

\* number of trips of the sequence ts that start (end) at the identity id
StartsAt(ts, id) == Cardinality({k \in DOMAIN ts : ts[k].start_station_id = id})

EndsAt(ts, id) == Cardinality({k \in DOMAIN ts : ts[k].end_station_id = id})

\* the loaded trips a filter value f selects, by position
Selected(f) == {k \in DOMAIN trips : f = -1 \/ Near(trips[k], f)}

SelectedStartsAt(f, id) ==
  Cardinality({k \in Selected(f) : trips[k].start_station_id = id})

SelectedEndsAt(f, id) ==
  Cardinality({k \in Selected(f) : trips[k].end_station_id = id})

RECURSIVE SumTo(_, _)
SumTo(f, n) == IF n = 0 THEN 0 ELSE f[n] + SumTo(f, n - 1)

Occurrences(ts, t) == Cardinality({k \in DOMAIN ts : ts[k] = t})

\* C1: after every aggregation pass (the one at initial load and every one a
\* slider event runs) every station has the three counters as natural numbers
\* with totalTraffic = arrivals + departures, and a station whose identity
\* matches no trip of the aggregated trips has all three equal to 0.
C1_TotalIsSum ==
  Ready =>
    /\ \A i \in DOMAIN stations :
         /\ {"arrivals", "departures", "totalTraffic"} \subseteq DOMAIN stations[i]
         /\ stations[i].arrivals \in Nat
         /\ stations[i].departures \in Nat
         /\ stations[i].totalTraffic \in Nat
         /\ stations[i].totalTraffic = stations[i].arrivals + stations[i].departures
         /\ (\A k \in DOMAIN filteredTrips :
               /\ filteredTrips[k].start_station_id # Id(i)
               /\ filteredTrips[k].end_station_id # Id(i))
            => /\ stations[i].arrivals = 0
               /\ stations[i].departures = 0
               /\ stations[i].totalTraffic = 0
    /\ DOMAIN loadTraffic = DOMAIN stations
    /\ \A i \in DOMAIN loadTraffic :
         /\ loadTraffic[i] \in Nat \X Nat \X Nat
         /\ loadTraffic[i][3] = loadTraffic[i][1] + loadTraffic[i][2]
         /\ (\A k \in DOMAIN trips :
               /\ trips[k].start_station_id # Id(i)
               /\ trips[k].end_station_id # Id(i))
            => loadTraffic[i] = <<0, 0, 0>>

\* a slider event has aggregated: one station has traffic in both directions,
\* another matches none of the aggregated trips and stands at 0
C1_Witness ==
  /\ Ready
  /\ lastEvent = "slider"
  /\ filteredTrips # <<>>
  /\ \E i, j \in DOMAIN stations :
       /\ stations[i].arrivals > 0 /\ stations[i].departures > 0
       /\ stations[i].totalTraffic = stations[i].arrivals + stations[i].departures
       /\ stations[j].totalTraffic = 0
       /\ \A k \in DOMAIN filteredTrips :
            /\ filteredTrips[k].start_station_id # Id(j)
            /\ filteredTrips[k].end_station_id # Id(j)

\* C2: aggregation sets departures(s) to the number of aggregated trips whose
\* start_station_id is s's identity and arrivals(s) to the number whose
\* end_station_id is; a trip whose start (end) reference matches no station is
\* counted for no station on that side.
C2_CountsPerIdentity ==
  Ready =>
    /\ \A i \in DOMAIN stations :
         /\ stations[i].departures = StartsAt(filteredTrips, Id(i))
         /\ stations[i].arrivals = EndsAt(filteredTrips, Id(i))
    /\ SumTo([i \in DOMAIN stations |-> stations[i].departures], Len(stations))
         = Cardinality({k \in DOMAIN filteredTrips :
              \E i \in DOMAIN stations : filteredTrips[k].start_station_id = Id(i)})
    /\ SumTo([i \in DOMAIN stations |-> stations[i].arrivals], Len(stations))
         = Cardinality({k \in DOMAIN filteredTrips :
              \E i \in DOMAIN stations : filteredTrips[k].end_station_id = Id(i)})

\* the aggregated trips hold one trip starting at an unknown station and one
\* ending at an unknown station, beside a station that is counted
C2_Witness ==
  /\ Ready
  /\ lastEvent = "slider"
  /\ \E k \in DOMAIN filteredTrips :
       \A i \in DOMAIN stations : filteredTrips[k].start_station_id # Id(i)
  /\ \E k \in DOMAIN filteredTrips :
       \A i \in DOMAIN stations : filteredTrips[k].end_station_id # Id(i)
  /\ \E i \in DOMAIN stations :
       stations[i].arrivals > 0 /\ stations[i].departures > 0

\* C3: for a reference minute m other than -1 the filtered trips are exactly
\* the loaded trips with |startMinute - m| <= 60 or |endMinute - m| <= 60
\* (plain difference of minutes since midnight): a difference of 60 is in, 61
\* is out, and a trip at 23:30 is not selected at minute 30.
C3_WindowSelection ==
  (Ready /\ timeFilter # -1) =>
    /\ Len(filteredTrips) = Cardinality(Selected(timeFilter))
    /\ \A t \in TripKinds :
         Occurrences(filteredTrips, t)
           = Cardinality({k \in Selected(timeFilter) : trips[k] = t})
    /\ \A k \in DOMAIN trips :
         LET a == MinuteOf(trips[k].started_at)
             b == MinuteOf(trips[k].ended_at)
             m == timeFilter
             in == Occurrences(filteredTrips, trips[k]) > 0
         IN /\ (a = m + 60 \/ a = m - 60 \/ b = m + 60 \/ b = m - 60) => in
            /\ (a \in {m + 61, m - 61} /\ b \in {m + 61, m - 61}) => ~in
            /\ (a = 1410 /\ b = 1410 /\ m = 30) => ~in

\* a slider event at minute 500 kept a trip only because one of its times is
\* exactly 60 minutes away and dropped one whose times are both 61 away
C3_Witness ==
  /\ Ready
  /\ lastEvent = "slider"
  /\ timeFilter = 500
  /\ \E k \in DOMAIN filteredTrips :
       /\ MinuteOf(filteredTrips[k].ended_at) = 560
       /\ MinuteOf(filteredTrips[k].started_at) < 440
  /\ \E k \in DOMAIN trips :
       /\ MinuteOf(trips[k].ended_at) = 439
       /\ Occurrences(filteredTrips, trips[k]) = 0

\* C4: filterTripsByTime(trips, -1) is the trip collection itself, every trip
\* in place, the empty collection included.
C4_SentinelKeepsAll ==
  (Ready /\ timeFilter = -1) => filteredTrips = trips

\* a slider event at -1 passed on a full trip collection that every
\* minute filter would cut
C4_Witness ==
  /\ Ready
  /\ lastEvent = "slider"
  /\ timeFilter = -1
  /\ Len(trips) = MaxTrips
  /\ filteredTrips = trips
  /\ \A m \in SliderValues \ {-1} : Cardinality(Selected(m)) < Len(trips)

\* C5: once a slider event with value m is processed the stored filter is m and
\* every station's counters are those of the loaded trips m selects, whatever
\* the earlier values were; at -1 they are the counters of the initial load.
C5_LastSliderValueDecides ==
  Ready =>
    /\ timeFilter = sliderValue
    /\ \A i \in DOMAIN stations :
         /\ stations[i].departures = SelectedStartsAt(sliderValue, Id(i))
         /\ stations[i].arrivals = SelectedEndsAt(sliderValue, Id(i))
         /\ stations[i].totalTraffic
              = SelectedStartsAt(sliderValue, Id(i)) + SelectedEndsAt(sliderValue, Id(i))
    /\ sliderValue = -1 => Counters(stations) = loadTraffic

\* the slider stands at -1 after a slider event and the counters are the load's,
\* although every minute filter gives some station a smaller count
C5_Witness ==
  /\ Ready
  /\ lastEvent = "slider"
  /\ sliderValue = -1
  /\ Counters(stations) = loadTraffic
  /\ \A m \in SliderValues \ {-1} :
       \E i \in DOMAIN stations :
          SelectedStartsAt(m, Id(i)) + SelectedEndsAt(m, Id(i)) < loadTraffic[i][3]

\* C6: after the initial render and every slider event the radius range is
\* [0, 25] exactly when the filter is -1 and [3, 50] exactly when it is a minute
\* of the day; a filter that selects all trips of a station leaves that station
\* the counters of the unfiltered load, under the [3, 50] range.
C6_RangeFollowsFilter ==
  Ready =>
    /\ radiusScale.range = <<0, 25>> <=> timeFilter = -1
    /\ radiusScale.range = <<3, 50>> <=> timeFilter \in 0..1439
    /\ radiusScale.range \in {<<0, 25>>, <<3, 50>>}
    /\ \A i \in DOMAIN stations :
         (/\ timeFilter # -1
          /\ \A k \in DOMAIN trips :
               (trips[k].start_station_id = Id(i) \/ trips[k].end_station_id = Id(i))
                 => Near(trips[k], timeFilter))
         => /\ Counters(stations)[i] = loadTraffic[i]
            /\ radiusScale.range = <<3, 50>>

\* the one trip 08:10-08:25 under a slider event at minute 500: the full
\* counts under the range [3, 50]
C6_Witness ==
  /\ Ready
  /\ lastEvent = "slider"
  /\ timeFilter = 500
  /\ Len(trips) = 1
  /\ MinuteOf(trips[1].started_at) = 490 /\ MinuteOf(trips[1].ended_at) = 505
  /\ \E i \in DOMAIN stations : stations[i].totalTraffic = 1
  /\ Counters(stations) = loadTraffic
  /\ radiusScale.range = <<3, 50>>

\* the largest unfiltered totalTraffic of a station, 0 without stations
UnfilteredMax ==
  LET totals == {StartsAt(trips, Id(i)) + EndsAt(trips, Id(i)) : i \in DOMAIN stations}
  IN IF totals = {} THEN 0 ELSE CHOOSE t \in totals : \A u \in totals : u <= t

\* C7 as stated: with stations loaded, the radius domain is
\* [0, the largest unfiltered totalTraffic of a station].
C7_DomainIsObservedMax ==
  (Ready /\ stations # <<>>) => radiusScale.domain = <<0, UnfilteredMax>>

\* C7, amended: the radius domain is [0, M] with M the largest totalTraffic of
\* the unfiltered load, or 1 when that is 0 or there is no station, and it is
\* the same after every slider and viewport event.
C7_DomainIsObservedMaxOrOne ==
  Ready =>
    radiusScale.domain = <<0, IF UnfilteredMax = 0 THEN 1 ELSE UnfilteredMax>>

\* under an active filter, after a slider event, the filtered totals all lie
\* below the domain's upper end, which is still the unfiltered maximum
C7_Witness ==
  /\ Ready
  /\ lastEvent = "slider"
  /\ timeFilter # -1
  /\ UnfilteredMax >= 2
  /\ radiusScale.domain = <<0, UnfilteredMax>>
  /\ \A i \in DOMAIN stations : stations[i].totalTraffic < UnfilteredMax

\* C8: with the current range [min, max] a station with totalTraffic 0 has
\* radius min and one with the domain maximum has radius max, the radius not
\* decreasing with totalTraffic; under an active filter a station without
\* filtered traffic has radius 3, not 0.
C8_RadiusEnds ==
  Ready =>
    /\ DOMAIN circles = DOMAIN stations
    /\ \A c \in DOMAIN circles :
         LET d == stations[circles[c].datum]
         IN /\ d.totalTraffic = 0 => circles[c].r = 1000 * radiusScale.range[1]
            /\ d.totalTraffic = radiusScale.domain[2]
                 => circles[c].r = 1000 * radiusScale.range[2]
            /\ (d.totalTraffic = 0 /\ timeFilter # -1) => circles[c].r = 3000
            /\ (d.totalTraffic = 0 /\ timeFilter = -1) => circles[c].r = 0
    /\ \A c, e \in DOMAIN circles :
         stations[circles[c].datum].totalTraffic <= stations[circles[e].datum].totalTraffic
           => circles[c].r <= circles[e].r
    /\ \A x \in 0..(radiusScale.domain[2] - 1) :
         ScaleSqrt(radiusScale, x) <= ScaleSqrt(radiusScale, x + 1)

\* stations A and B, the one trip 08:10-08:25 from A to B, a slider event at
\* minute 1439: both totals 0, both radii 3
C8_Witness ==
  /\ Ready
  /\ lastEvent = "slider"
  /\ timeFilter = 1439
  /\ Len(stations) = 2 /\ Id(1) = "A" /\ Id(2) = "B"
  /\ Len(trips) = 1
  /\ trips[1].start_station_id = "A" /\ trips[1].end_station_id = "B"
  /\ MinuteOf(trips[1].started_at) = 490 /\ MinuteOf(trips[1].ended_at) = 505
  /\ loadTraffic = << <<0, 1, 1>>, <<1, 0, 1>> >>
  /\ \A i \in 1..2 : stations[i].totalTraffic = 0 /\ circles[i].r = 3000

\* C9: on every render each marker's colour bucket is one of 0, 0.5, 1 (here
\* 0, 5, 10 tenths), from departures / totalTraffic: ratio 0 gives 0, ratio 1
\* gives 1, ratio 0.5 gives 0.5, and totalTraffic 0 gives 0.5.
C9_FlowBuckets ==
  Ready =>
    \A c \in DOMAIN circles :
      LET d == stations[circles[c].datum]
      IN /\ circles[c].ratio \in {0, 5, 10}
         /\ (d.totalTraffic > 0 /\ d.departures = 0) => circles[c].ratio = 0
         /\ (d.totalTraffic > 0 /\ d.departures = d.totalTraffic) => circles[c].ratio = 10
         /\ (d.totalTraffic > 0 /\ 2 * d.departures = d.totalTraffic) => circles[c].ratio = 5
         /\ d.totalTraffic = 0 => circles[c].ratio = 5

\* after a slider event one marker belongs to a station without traffic and
\* another to a station with as many departures as arrivals; both show 0.5
C9_Witness ==
  /\ Ready
  /\ lastEvent = "slider"
  /\ \E c, e \in DOMAIN circles :
       /\ stations[circles[c].datum].totalTraffic = 0
       /\ circles[c].ratio = 5
       /\ stations[circles[e].datum].totalTraffic = 2
       /\ stations[circles[e].datum].departures = 1
       /\ circles[e].ratio = 5

\* cx and cy of every circle removed
Unplaced(cs) ==
  [i \in DOMAIN cs |-> [f \in DOMAIN cs[i] \ {"cx", "cy"} |-> cs[i][f]]]

\* C10: a viewport event (the steps that change the viewport transform) leaves
\* the filter, the stations with their counters, the trips, the radius scale
\* and every marker's radius, bucket and text as they are; the filter is
\* written only by the slider handler (run on the initial render and on slider
\* events) and the counters only by the load and the slider handler.
C10_ViewportMovesOnly ==
  [][/\ view' # view =>
          /\ UNCHANGED <<timeFilter, stations, trips, radiusScale, sliderValue,
                         selectedTime, anyTimeDisplay, filteredTrips, loadTraffic>>
          /\ Unplaced(circles') = Unplaced(circles)
     /\ timeFilter' # timeFilter => lastEvent' \in {"load", "slider"}
     /\ (Ready /\ stations' # stations) => lastEvent' = "slider"
     /\ (~Ready /\ stations' # stations) => pc' \in {"awaitTrips", "ready"}
    ]_vars

\* a viewport event was handled under an active filter: the markers stand at
\* the projection under the new transform and keep their filtered radii
C10_Witness ==
  /\ Ready
  /\ lastEvent = "viewport"
  /\ view # InitialView
  /\ timeFilter # -1
  /\ \E c \in DOMAIN circles :
       /\ circles[c].r > 3000
       /\ stations[circles[c].datum].lat # Null
       /\ circles[c].cx = getCoords(view, stations[circles[c].datum]).cx
       /\ circles[c].cx # getCoords(InitialView, stations[circles[c].datum]).cx

\* C11: after the initial render and after every slider event the markers and
\* the station identities correspond one to one: every station identity has
\* exactly one marker bound to it, every marker is bound to a station of the
\* list, no identity has two markers and no two markers are the same element.
C11_OneMarkerPerIdentity ==
  Ready =>
    /\ \A i \in DOMAIN stations :
         Cardinality({c \in DOMAIN circles : Id(circles[c].datum) = Id(i)}) = 1
    /\ \A c \in DOMAIN circles : circles[c].datum \in DOMAIN stations
    /\ \A c, e \in DOMAIN circles : circles[c].node = circles[e].node => c = e
    /\ Cardinality({circles[c].node : c \in DOMAIN circles}) = Len(stations)

\* two stations, the second identified by its position in the file, were
\* re-rendered by a slider event and each still has its one marker
C11_Witness ==
  /\ Ready
  /\ lastEvent = "slider"
  /\ Len(stations) = 2
  /\ Id(2) = "S1"
  /\ Len(circles) = 2
  /\ Id(circles[1].datum) # Id(circles[2].datum)
  /\ {circles[c].node : c \in DOMAIN circles} = {1, 2}

\* a station record without the three derived counters
Stripped(sts) ==
  [i \in DOMAIN sts |->
     [f \in DOMAIN sts[i] \ {"arrivals", "departures", "totalTraffic"} |-> sts[i][f]]]

\* C12: once the stations are loaded and normalised, no step adds, removes or
\* reorders a station or changes an identity or any other loaded field: the
\* first aggregation and every later one change the three counters only.
C12_StationsKept ==
  [][(pc = "awaitTrips" \/ pc = "ready") =>
       (/\ Len(stations') = Len(stations)
        /\ Stripped(stations') = Stripped(stations)
        /\ \A i \in DOMAIN stations : stations'[i]["_id"] = Id(i)
        /\ pc' = "ready" =>
             \A i \in DOMAIN stations' :
                {"arrivals", "departures", "totalTraffic"} \subseteq DOMAIN (stations'[i]))
    ]_vars

\* a slider event re-aggregated two stations, one of them left without
\* traffic by the window: both are still there, in file order
C12_Witness ==
  /\ Ready
  /\ lastEvent = "slider"
  /\ Counters(stations) # loadTraffic
  /\ \E raw \in StationFiles :
       /\ Len(raw) = 2
       /\ Stripped(stations) = Normalise(raw)
  /\ \E i \in DOMAIN stations :
       /\ stations[i].totalTraffic = 0
       /\ loadTraffic[i][3] > 0

\* C13: once the trips are loaded no step changes them: after any slider and
\* viewport events trips holds exactly the loaded trips, in order, and a
\* slider event with a minute of day aggregates a selection of them that is
\* held apart from trips.
C13_TripsKept ==
  [][Ready =>
       (/\ trips' = trips
        /\ timeFilter' # timeFilter =>
             LET Keep(t) == timeFilter' = -1 \/ Near(t, timeFilter')
             IN filteredTrips' = SelectSeq(trips, Keep))
    ]_vars

\* two trips were loaded and a slider event windowed one of them away: the
\* selection holds one trip while trips still aggregates to the load's counters
C13_Witness ==
  /\ Ready
  /\ lastEvent = "slider"
  /\ Len(trips) = 2
  /\ timeFilter # NoFilter
  /\ Len(filteredTrips) = 1
  /\ Counters(computeStationTraffic(stations, trips)) = loadTraffic

\* C14: computeStationTraffic gives every station the same arrivals,
\* departures and totalTraffic whatever the order of the trip array: the
\* counters written from filteredTrips equal those from its reordering trips.
C14_OrderIndependent ==
  pc \in {"aggregated", "aggregatedTwice"} =>
    \A i \in DOMAIN stations :
       /\ stations[i].arrivals = loadTraffic[i][1]
       /\ stations[i].departures = loadTraffic[i][2]
       /\ stations[i].totalTraffic = loadTraffic[i][3]

\* two different trips were aggregated in both orders and some station has
\* traffic from each of them
C14_Witness ==
  /\ pc = "aggregated"
  /\ Len(trips) = 2
  /\ filteredTrips # trips
  /\ Counters(stations) = loadTraffic
  /\ \E i \in DOMAIN stations : stations[i].totalTraffic = 2

\* C15: a second computeStationTraffic on the station objects and trips of the
\* first leaves every station as the first left it, _id and counters alike;
\* the first keeps an _id a station already has and otherwise writes the
\* identity derived from the record and its position.
C15_SecondRunChangesNothing ==
  [][/\ (pc = "aggregated" /\ pc' = "aggregatedTwice") => stations' = stations
     /\ (pc = "aggregate" /\ pc' = "aggregated") =>
          \A i \in DOMAIN stations :
             stations'[i]["_id"] = IF "_id" \in DOMAIN stations[i]
                                     THEN stations[i]["_id"]
                                     ELSE getStationId(stations[i], i - 1)
    ]_vars

\* aggregated twice: a station identified by its position has traffic and
\* still carries the identity and the counters of the first run
C15_Witness ==
  /\ pc = "aggregatedTwice"
  /\ \E i \in DOMAIN stations :
       /\ Id(i) = IndexId(i - 1)
       /\ stations[i].arrivals > 0
       /\ stations[i].totalTraffic = loadTraffic[i][3]

\* C16: after every processed event (initial render, move, zoom, resize,
\* slider input) every marker stands at the projection of its station's
\* coordinate under the current viewport transform, or off canvas when the
\* station has no coordinate; no marker keeps an earlier transform's position.
C16_MarkersFollowView ==
  Ready =>
    \A c \in DOMAIN circles :
       LET station == stations[circles[c].datum]
       IN IF station.lat = Null \/ station.lon = Null
            THEN circles[c].cx = OffCanvas /\ circles[c].cy = OffCanvas
            ELSE /\ circles[c].cx =
                      project(view, ToNumber(station.lon), ToNumber(station.lat)).x
                 /\ circles[c].cy =
                      project(view, ToNumber(station.lon), ToNumber(station.lat)).y

\* the map was zoomed after load: the marker of the station at (1, 2) moved
\* from (2, 3) to (3, 5)
C16_Witness ==
  /\ Ready
  /\ lastEvent = "viewport"
  /\ view = [InitialView EXCEPT !.zoom = 13]
  /\ \E c \in DOMAIN circles :
       /\ stations[circles[c].datum].lon = "1"
       /\ stations[circles[c].datum].lat = "2"
       /\ circles[c].cx = 3
       /\ circles[c].cy = 5
       /\ getCoords(InitialView, stations[circles[c].datum]) = [cx |-> 2, cy |-> 3]

\* the station's latitude or longitude is missing or is no number
Unplottable(station) ==
  \/ station.lat = Null
  \/ station.lon = Null
  \/ IsNaN(station.lat)
  \/ IsNaN(station.lon)

\* C17: once the data load has run, no error was raised and every station
\* whose latitude or longitude is missing or unparseable is in the collection
\* with its counters and has one marker, placed at (-9999, -9999), after the
\* render and after every viewport event.
C17_UnplottableOffCanvas ==
  pc \in {"ready", "failed"} =>
    /\ pc # "failed"
    /\ \A i \in DOMAIN stations :
         Unplottable(stations[i]) =>
           /\ {"arrivals", "departures", "totalTraffic"} \subseteq DOMAIN stations[i]
           /\ \E c \in DOMAIN circles :
                /\ circles[c].datum = i
                /\ {"cx", "cy"} \subseteq DOMAIN circles[c]
                /\ circles[c].cx = OffCanvas
                /\ circles[c].cy = OffCanvas

\* every station carries the three counters
Aggregated(sts) ==
  \A i \in DOMAIN sts :
     {"arrivals", "departures", "totalTraffic"} \subseteq DOMAIN sts[i]

\* C18: nothing reads a station's counters before the first aggregation has
\* written them: while the load has not finished, whatever slider or viewport
\* events occur, no handler has run, the radius domain and range are the
\* initial ones, the filter is the sentinel and nothing is rendered; once a
\* handler or the render has run, every station has its counters.
C18_NothingBeforeFirstAggregation ==
  /\ ~Ready =>
       /\ lastEvent = "none"
       /\ circles = <<>>
       /\ radiusScale = [domain |-> <<0, 1>>, range |-> <<0, 25>>]
       /\ timeFilter = -1
       /\ selectedTime = <<>>
       /\ anyTimeDisplay = ""
       /\ filteredTrips = <<>>
       /\ \A i \in DOMAIN stations : "totalTraffic" \notin DOMAIN stations[i]
  /\ (lastEvent # "none" \/ circles # <<>>) => (Ready /\ Aggregated(stations))
  /\ Ready => Aggregated(stations) /\ loadTraffic = Counters(computeStationTraffic(stations, trips))

\* the slider was moved and the map zoomed while the load was suspended; the
\* load then finished and rendered two aggregated stations under that filter
C18_Witness ==
  /\ Ready
  /\ lastEvent = "load"
  /\ sliderValue = 500
  /\ timeFilter = 500
  /\ view = [InitialView EXCEPT !.zoom = 13]
  /\ Len(stations) = 2
  /\ Aggregated(stations)
  /\ Len(circles) = 2
  /\ \E i \in DOMAIN stations : loadTraffic[i][3] > 0

\* the minute of day a clock label <<hour, minute, meridiem>> names
LabelMinute(label) ==
  ((label[1] % 12) + (IF label[3] = "PM" THEN 12 ELSE 0)) * 60 + label[2]

\* C19: after every processed slider event (and the initial render) the clock
\* label names the stored filter minute, with the 'any time' indicator
\* hidden, exactly when the filter is a minute of day, and is empty, with the
\* indicator shown, exactly when the filter is -1; the minute it names is the
\* one the counters were aggregated for.
C19_LabelMatchesFilter ==
  Ready =>
    /\ timeFilter = sliderValue
    /\ timeFilter = -1 <=> selectedTime = <<>>
    /\ timeFilter = -1 <=> anyTimeDisplay = "block"
    /\ timeFilter # -1 <=> anyTimeDisplay = "none"
    /\ timeFilter # -1 =>
         /\ selectedTime[1] \in 1..12
         /\ selectedTime[2] \in 0..59
         /\ selectedTime[3] \in {"AM", "PM"}
         /\ LabelMinute(selectedTime) = timeFilter
         /\ \A i \in DOMAIN stations :
              /\ stations[i].departures =
                   SelectedStartsAt(LabelMinute(selectedTime), Id(i))
              /\ stations[i].arrivals =
                   SelectedEndsAt(LabelMinute(selectedTime), Id(i))

\* a slider event at the last minute of the day: the label reads 11:59 PM,
\* the indicator is hidden and the counters are those of the window around it
C19_Witness ==
  /\ Ready
  /\ lastEvent = "slider"
  /\ timeFilter = 1439
  /\ selectedTime = <<11, 59, "PM">>
  /\ anyTimeDisplay = "none"
  /\ Counters(stations) # loadTraffic
  /\ \E i \in DOMAIN stations : stations[i].totalTraffic > 0

\* C20: in every state after load, under any filter, no station's arrivals,
\* departures or totalTraffic exceeds its value of the unfiltered load, so no
\* totalTraffic exceeds the radius domain's maximum and no marker's radius
\* exceeds the upper end of the current range, 25 unfiltered and 50 filtered.
C20_FilteredWithinUnfiltered ==
  Ready =>
    /\ \A i \in DOMAIN stations :
         /\ stations[i].arrivals <= loadTraffic[i][1]
         /\ stations[i].departures <= loadTraffic[i][2]
         /\ stations[i].totalTraffic <= loadTraffic[i][3]
         /\ stations[i].totalTraffic <= radiusScale.domain[2]
    /\ \A c \in DOMAIN circles :
         /\ circles[c].r <= 1000 * radiusScale.range[2]
         /\ circles[c].r <= 1000 * (IF timeFilter = -1 THEN 25 ELSE 50)

\* under a minute filter a station lost part of its traffic: its total is
\* below the domain's maximum and its radius lies between 25 and 50
C20_Witness ==
  /\ Ready
  /\ lastEvent = "slider"
  /\ timeFilter # -1
  /\ \E i \in DOMAIN stations :
       /\ 0 < stations[i].totalTraffic
       /\ stations[i].totalTraffic < loadTraffic[i][3]
       /\ loadTraffic[i][3] = radiusScale.domain[2]
       /\ circles[i].r > 25000
       /\ circles[i].r < 50000

====
